---------------------------- MODULE Spec2Model ----------------------------
(***************************************************************************)
(* A model of google/cloud/aiplatform/pipeline_jobs.py: the PipelineJob    *)
(* client object (constructor, clone, submit, run, wait, state reads,      *)
(* cancel, lineage-context lookup) against a remote pipeline service.      *)
(*                                                                         *)
(* Strings are sequences of one-character tokens; the token "NL" stands    *)
(* for the newline character.                                              *)
(***************************************************************************)
EXTENDS Integers, Sequences, FiniteSets, TLC

VARIABLES
    job_id,     \* self.job_id of the constructed object, or None
    gca,        \* self._gca_resource: the local snapshot of the resource, or None
    cloned,     \* the object returned by clone(): [job_id, gca], or None
    remote,     \* the service's side of this job
    pc,         \* the caller's position inside the running operation
    op,         \* the public operation the caller is inside of
    result,     \* how the last finished operation ended
    loc,        \* locals of the running frame (_block_until_complete, _get_context)
    now,        \* the simulated clock read by time.time() and advanced by
                \* time.sleep(), in seconds since the running operation began
    logs,       \* clock times of the progress lines of the running wait
    rpc,        \* requests and sleeps made by the running operation
    polled,     \* the states the running loop has polled so far (first MaxHist)
    args,       \* the arguments of the running (or last) operation
    resp,       \* the most recent successful response of the service
    config      \* initializer.global_config: read, never written, by this file

vars == <<job_id, gca, cloned, remote, pc, op, result, loc, now, logs, rpc, polled, args, resp,
          config>>

\* Python's None where a string is expected (no character is the token "None").
NoneStr == <<"None">>

-----------------------------------------------------------------------------
(* Bounds of the model. *)

\* Longest pipeline name enumerated over NameAlphabet.
MaxNameLen == 2
\* Longest explicit job ID enumerated over IdAlphabet.
MaxIdLen == 2
\* The simulated clock stops the lifecycle specification here.
MaxTime == 20
\* The simulated clock stops the timing specification here.
MaxClock == 920
\* How many polled states the history keeps.
MaxHist == 6
\* Tasks of a root DAG, and components of a pipeline spec.
MaxTasks == 2
MaxComponents == 2

-----------------------------------------------------------------------------
(* Characters. *)

LowerLetters == {"a", "b", "c", "d", "e", "f", "i", "l", "m", "n", "o", "w"}
UpperLetters == {"B", "D", "F", "I"}
DigitSeq == <<"0", "1", "2", "3", "4", "5", "6", "7", "8", "9">>
Digits == {DigitSeq[i] : i \in 1..10}
Hyphen == "-"
OtherChars == {"_", "!", "NL"}

\* str.lower() on one character.
LowerChar(c) ==
    CASE c = "B" -> "b"
      [] c = "D" -> "d"
      [] c = "F" -> "f"
      [] c = "I" -> "i"
      [] OTHER -> c

\* str.lower()
Lower(s) == [i \in 1..Len(s) |-> LowerChar(s[i])]

\* The class [-0-9a-z] of the substitution pattern "[^-0-9a-z]+".
InSubClass(c) == c = Hyphen \/ c \in Digits \/ c \in LowerLetters

\* What re.sub puts out for position i of s: a character of the class as it
\* is, one hyphen for the first character of a run outside the class, nothing
\* for the rest of the run.
SubPiece(s, i) ==
    IF InSubClass(s[i]) THEN <<s[i]>>
    ELSE IF i > 1 /\ ~InSubClass(s[i - 1]) THEN <<>>
    ELSE <<Hyphen>>

RECURSIVE SubRange(_, _, _)
\* The pieces of positions lo..hi, in order.
SubRange(s, lo, hi) ==
    IF lo > hi THEN <<>>
    ELSE IF lo = hi THEN SubPiece(s, lo)
    ELSE SubRange(s, lo, (lo + hi) \div 2) \o SubRange(s, ((lo + hi) \div 2) + 1, hi)

\* The pattern without its "+": every character outside the class becomes a hyphen.
ReSubMutNoPlus(s) == [i \in 1..Len(s) |-> IF InSubClass(s[i]) THEN s[i] ELSE Hyphen]

\* re.sub("[^-0-9a-z]+", "-", s): left to right, each maximal run becomes one "-".
ReSub(s) == SubRange(s, 1, Len(s))

\* str.lstrip("-"): s from its first character that is not a hyphen.
LStrip(s) ==
    LET keep == {i \in 1..Len(s) : s[i] # Hyphen}
    IN  IF keep = {} THEN <<>>
        ELSE SubSeq(s, CHOOSE i \in keep : \A j \in keep : i <= j, Len(s))

\* str.rstrip("-"): s up to its last character that is not a hyphen.
RStrip(s) ==
    LET keep == {i \in 1..Len(s) : s[i] # Hyphen}
    IN  IF keep = {} THEN <<>>
        ELSE SubSeq(s, 1, CHOOSE i \in keep : \A j \in keep : i >= j)

\* Two and four decimal digits, zero padded (%m %d %H %M %S, and %Y).
TwoDigits(n) == <<DigitSeq[(n \div 10) + 1], DigitSeq[(n % 10) + 1]>>
FourDigits(n) == TwoDigits(n \div 100) \o TwoDigits(n % 100)

\* datetime.strftime("%Y%m%d%H%M%S")
Strftime(t) ==
    FourDigits(t.Y) \o TwoDigits(t.M) \o TwoDigits(t.D)
        \o TwoDigits(t.h) \o TwoDigits(t.m) \o TwoDigits(t.s)

\* "{pipeline_name}-{timestamp}".format(...) with the sanitized pipeline name.
SanitizedName(pipeline_name) == RStrip(LStrip(ReSub(Lower(pipeline_name))))

DerivedJobId(pipeline_name, t) ==
    SanitizedName(pipeline_name) \o <<Hyphen>> \o Strftime(t)

ClonedPrefix == <<"c", "l", "o", "n", "e", "d", "-">>

\* "cloned-{pipeline_name}-{timestamp}".format(...)
ClonedJobId(pipeline_name, t) ==
    ClonedPrefix \o SanitizedName(pipeline_name) \o <<Hyphen>> \o Strftime(t)

\* {0,127} of _VALID_NAME_PATTERN.
MaxTailLen == 127

\* The whole of s is [a-z][-a-z0-9]{0,127}.
FullMatch(s) ==
    /\ Len(s) >= 1
    /\ Len(s) <= 1 + MaxTailLen
    /\ s[1] \in LowerLetters
    /\ \A i \in 2..Len(s) : InSubClass(s[i])

\* _VALID_NAME_PATTERN.match(s) for "^[a-z][-a-z0-9]{0,127}$": Python's "$"
\* matches at the end of the string and also just before a newline that ends it.
ValidNameMatch(s) ==
    \/ FullMatch(s)
    \/ /\ Len(s) >= 1
       /\ s[Len(s)] = "NL"
       /\ FullMatch(SubSeq(s, 1, Len(s) - 1))

\* "job_id or ...": None and the empty string are both falsy.
Truthy(s) == s # NoneStr /\ s # <<>>


-----------------------------------------------------------------------------
(* Values. *)

\* An argument left None, a key missing from a dict.
Absent == "<absent>"

\* not x, for an optional string.
Falsy(x) == x \in {Absent, ""}

\* initializer.global_config with nothing set.
NoConfig == [staging_bucket |-> Absent, encryption_spec_key_name |-> Absent]

\* cachingOptions of a task as a template may have it: no such key, an empty
\* dict, or enableCache set.
CachingValues == {"absent", "{}", "enableCache:true", "enableCache:false"}

\* {"enableCache": enable_caching}
CachingOptions(enable_caching) ==
    IF enable_caching = "True" THEN "enableCache:true" ELSE "enableCache:false"

\* A component (or the root) of a pipeline spec: with a "dag" key it has
\* tasks, keyed 1..n; without one (an executor) it has none.
NoDag == [dag |-> FALSE, tasks |-> <<>>]
Dag(cs) == [dag |-> TRUE,
            tasks |-> [i \in 1..Len(cs) |-> [name |-> i, cachingOptions |-> cs[i]]]]

\* A pipeline spec without its pipelineInfo.name (kept as pipeline_name).
PipelineSpecOf(root, components, dc, dpr) ==
    [root |-> root, components |-> components, deploymentConfig |-> dc,
     defaultPipelineRoot |-> dpr]

EmptySpec == PipelineSpecOf(NoDag, <<>>, FALSE, Absent)

SetComponentCaching(component, enable_caching) ==
    IF component.dag
    THEN [component EXCEPT !.tasks =
             [i \in DOMAIN component.tasks |->
                 [component.tasks[i] EXCEPT !.cachingOptions = CachingOptions(enable_caching)]]]
    ELSE component

\* Only the tasks of the root DAG.
SetEnableCachingValueMutRootOnly(pipeline_spec, enable_caching) ==
    [pipeline_spec EXCEPT !.root = SetComponentCaching(pipeline_spec.root, enable_caching)]

\* tasks[k] = {"cachingOptions": ...} in place of task["cachingOptions"] = ...
SetEnableCachingValueMutReplacesTask(pipeline_spec, enable_caching) ==
    LET Replace(component) ==
            IF component.dag
            THEN [component EXCEPT !.tasks =
                     [i \in DOMAIN component.tasks |->
                         [name |-> 0, cachingOptions |-> CachingOptions(enable_caching)]]]
            ELSE component
    IN  [pipeline_spec EXCEPT
            !.root = Replace(pipeline_spec.root),
            !.components = [i \in DOMAIN pipeline_spec.components |->
                               Replace(pipeline_spec.components[i])]]

\* _set_enable_caching_value: every task of the root and of every component
\* that has a "dag" gets cachingOptions = {"enableCache": enable_caching}.
SetEnableCachingValue(pipeline_spec, enable_caching) ==
    [pipeline_spec EXCEPT
        !.root = SetComponentCaching(pipeline_spec.root, enable_caching),
        !.components = [i \in DOMAIN pipeline_spec.components |->
                           SetComponentCaching(pipeline_spec.components[i], enable_caching)]]

\* What load_yaml returned: a full job spec (it has a "pipelineSpec" key,
\* and may have a "runtimeConfig" with a gcsOutputDirectory) or a bare spec.
Template(is_job_spec, has_runtime_config, gcs_output_directory, spec) ==
    [is_job_spec |-> is_job_spec, has_runtime_config |-> has_runtime_config,
     gcsOutputDirectory |-> gcs_output_directory, spec |-> spec]

\* PipelineState values the module distinguishes.
PIPELINE_COMPLETE_STATES == {"SUCCEEDED", "FAILED", "CANCELLED", "PAUSED"}
PIPELINE_ERROR_STATES == {"FAILED"}
NonTerminalStates == {"PENDING", "RUNNING"}

\* google.rpc.Status carried by the resource's error field.
NoError == [code |-> 0, message |-> ""]
QuotaError == [code |-> 9, message |-> "quota exceeded"]
InternalError == [code |-> 13, message |-> "internal"]
CancelledError == [code |-> 1, message |-> "cancelled"]
\* What the service may report with FAILED, and with CANCELLED.
FailedPayloads == {QuotaError, InternalError}
CancelledPayloads == {NoError, CancelledError}

\* gca_pipeline_job.PipelineJob as built by the constructor: no resource name,
\* unspecified state, no error, no pipeline-run context.
EmptyResource ==
    [name |-> <<>>, state |-> "UNSPECIFIED", error |-> NoError, ctx |-> "",
     task_details |-> "", display_name |-> "", pipeline_name |-> <<>>,
     service_account |-> "", network |-> "",
     pipeline_spec |-> EmptySpec, labels |-> "", encryption_spec |-> "",
     pipeline_root |-> ""]

NoClone == [job_id |-> NoneStr, gca |-> EmptyResource]

\* The service holds no resource for this job yet.
NoRemote == [exists |-> FALSE, cancel_requested |-> FALSE, res |-> EmptyResource]

\* Requests of the running operation by kind (fetch: template loads, meta:
\* requests to the metadata store), its sleeps and the seconds slept, the
\* polls of it that returned a state of _PIPELINE_COMPLETE_STATES, the polls
\* of _get_context that returned a pipeline-run context, the
\* pipeline_job_id of its create request, and the error the service answered
\* a request of it with (failed: the kind of that request).
ZeroRpc == [create |-> 0, get |-> 0, cancel |-> 0, delete |-> 0,
            fetch |-> 0, meta |-> 0, sleeps |-> 0, slept |-> 0,
            complete_polls |-> 0, ctx_polls |-> 0, create_id |-> NoneStr,
            error |-> "", failed |-> ""]

NoLoc == [wait |-> 0, log_wait |-> 0, max_wait |-> 0, multiplier |-> 0,
          previous_time |-> 0, pipeline_run_context |-> ""]

NoArgs == [op |-> "none"]

Ok(o, v) == [op |-> o, status |-> "ok", err |-> "", value |-> v, payload |-> NoError]
Raised(o, e, p) == [op |-> o, status |-> "raised", err |-> e, value |-> "", payload |-> p]
\* The constructor and clone() end with the job ID they settled on: the new
\* object's, or the one the ValueError message quotes.
IdOk(o, id) == [Ok(o, "") EXCEPT !.value = id]
IdRaised(o, e, id) == [Raised(o, e, NoError) EXCEPT !.value = id]
NoResult == [op |-> "none", status |-> "none", err |-> "", value |-> "", payload |-> NoError]

Constructed == job_id # NoneStr

-----------------------------------------------------------------------------
(* Collaborators outside this file. *)

GeneratedDisplayName == "PipelineJob-generated"

\* utils.validate_display_name: raises ValueError for a name it rejects.
ValidDisplayName(d) == d # "INVALID"

\* utils.validate_labels: raises ValueError for labels it rejects.
ValidLabels(l) == l # "INVALID"

\* initializer.global_config.get_encryption_spec: the key given, else the
\* process-wide key, else no encryption spec.
GetEncryptionSpec(encryption_spec_key_name) ==
    IF ~Falsy(encryption_spec_key_name) THEN encryption_spec_key_name
    ELSE IF ~Falsy(config.encryption_spec_key_name) THEN config.encryption_spec_key_name
    ELSE ""

\* PipelineRuntimeConfigBuilder.update_pipeline_root: a root that is given
\* replaces the one the builder took from the job spec.
UpdatePipelineRoot(current, pipeline_root) ==
    IF Falsy(pipeline_root) THEN current ELSE pipeline_root

\* yaml_utils.load_yaml: a local path is read from disk, a gs:// URI and an
\* Artifact Registry URL are fetched over the network.
TemplateIsRemote(template_path) == template_path \in {"gcs", "ar"}

-----------------------------------------------------------------------------
(* PipelineJob.__init__ *)

CtorJobId(a) ==
    IF Truthy(a.job_id) THEN a.job_id ELSE DerivedJobId(a.pipeline_name, a.time)

CtorDisplayName(a) ==
    IF a.display_name = "" THEN GeneratedDisplayName ELSE a.display_name

\* "defaultPipelineRoot or pipeline_root": the spec's default first.
CtorPipelineRootMutDefaultFirst(a) ==
    IF ~Falsy(a.template.spec.defaultPipelineRoot) THEN a.template.spec.defaultPipelineRoot
    ELSE IF ~Falsy(a.pipeline_root) THEN a.pipeline_root
    ELSE IF a.template.is_job_spec /\ ~Falsy(a.template.gcsOutputDirectory)
         THEN a.template.gcsOutputDirectory
    ELSE config.staging_bucket

\* The chain of "or" that gives the root handed to update_pipeline_root;
\* gcsOutputDirectory takes part only for a full job spec.
CtorPipelineRoot(a) ==
    IF ~Falsy(a.pipeline_root) THEN a.pipeline_root
    ELSE IF ~Falsy(a.template.spec.defaultPipelineRoot)
         THEN a.template.spec.defaultPipelineRoot
    ELSE IF a.template.is_job_spec /\ ~Falsy(a.template.gcsOutputDirectory)
         THEN a.template.gcsOutputDirectory
    ELSE config.staging_bucket

\* pipeline_job["runtimeConfig"] is evaluated, for a full job spec, when the
\* two operands before it are falsy: KeyError if the key is missing.
CtorRuntimeConfigMissing(a) ==
    /\ a.template.is_job_spec
    /\ ~a.template.has_runtime_config
    /\ Falsy(a.pipeline_root)
    /\ Falsy(a.template.spec.defaultPipelineRoot)

CtorPipelineSpec(a) ==
    IF a.enable_caching # Absent
    THEN SetEnableCachingValue(a.template.spec, a.enable_caching)
    ELSE a.template.spec

\* The job ID checked before the template is loaded.
CtorFetchesMutIdFirst(a) ==
    IF /\ ValidDisplayName(CtorDisplayName(a))
       /\ (a.labels # "" => ValidLabels(a.labels))
       /\ ValidNameMatch(CtorJobId(a))
       /\ TemplateIsRemote(a.template_path)
    THEN 1 ELSE 0

\* The requests the constructor has made when it returns or raises: the
\* template load comes after the display name and labels checks and before
\* the job ID check.
CtorFetches(a) ==
    IF /\ ValidDisplayName(CtorDisplayName(a))
       /\ (a.labels # "" => ValidLabels(a.labels))
       /\ TemplateIsRemote(a.template_path)
    THEN 1 ELSE 0

CtorError(a) ==
    IF ~ValidDisplayName(CtorDisplayName(a)) THEN "ValueError:display_name"
    ELSE IF a.labels # "" /\ ~ValidLabels(a.labels) THEN "ValueError:labels"
    ELSE IF CtorRuntimeConfigMissing(a) THEN "KeyError:runtimeConfig"
    ELSE IF ~ValidNameMatch(CtorJobId(a)) THEN "ValueError:job_id"
    ELSE ""

Construct(a) ==
    /\ UNCHANGED config
    /\ pc = "idle"
    /\ ~Constructed
    /\ args' = [a EXCEPT !.op = "init"]
    /\ rpc' = [ZeroRpc EXCEPT !.fetch = CtorFetches(a)]
    /\ IF CtorError(a) # ""
       THEN /\ result' = IdRaised("init", CtorError(a),
                                  IF CtorError(a) = "ValueError:job_id"
                                  THEN CtorJobId(a) ELSE <<>>)
            /\ UNCHANGED <<job_id, gca>>
       ELSE /\ result' = IdOk("init", CtorJobId(a))
            /\ job_id' = CtorJobId(a)
            /\ gca' = [EmptyResource EXCEPT
                          !.display_name = CtorDisplayName(a),
                          !.pipeline_name = a.pipeline_name,
                          !.pipeline_spec = CtorPipelineSpec(a),
                          !.labels = a.labels,
                          !.encryption_spec = GetEncryptionSpec(a.encryption_spec_key_name),
                          !.pipeline_root =
                              UpdatePipelineRoot(
                                  IF a.template.is_job_spec
                                     /\ ~Falsy(a.template.gcsOutputDirectory)
                                  THEN a.template.gcsOutputDirectory ELSE "",
                                  CtorPipelineRoot(a))]
    /\ now' = 0
    /\ UNCHANGED <<cloned, remote, pc, op, loc, logs, polled, resp>>

-----------------------------------------------------------------------------
(* PipelineJob.clone *)

CloneJobId(a) ==
    IF Truthy(a.job_id) THEN a.job_id ELSE ClonedJobId(gca.pipeline_name, a.time)

CloneDisplayName(a) ==
    IF a.display_name # "" THEN a.display_name ELSE gca.display_name

\* del pipeline_spec["deploymentConfig"]
StripDeploymentConfig(pipeline_spec) == [pipeline_spec EXCEPT !.deploymentConfig = FALSE]

\* The clone's pipeline spec: the original's without deploymentConfig, with
\* the caching value when one is given.
ClonePipelineSpec(a) ==
    IF a.enable_caching # Absent
    THEN SetEnableCachingValue(StripDeploymentConfig(gca.pipeline_spec), a.enable_caching)
    ELSE StripDeploymentConfig(gca.pipeline_spec)

\* Labels given are used; else the original's, when it has any.
CloneLabels(a) ==
    IF a.labels # "" THEN a.labels
    ELSE IF gca.labels # "" THEN gca.labels
    ELSE a.labels

\* A key given, or an original without an encryption spec, goes to
\* get_encryption_spec; else the original's encryption spec is used.
CloneEncryptionSpec(a) ==
    IF ~Falsy(a.encryption_spec_key_name) \/ gca.encryption_spec = ""
    THEN GetEncryptionSpec(a.encryption_spec_key_name)
    ELSE gca.encryption_spec

\* clone() edits the original's own pipeline spec.
CloneOriginalMutAlias(original, a) ==
    [original EXCEPT !.pipeline_spec = ClonePipelineSpec(a)]

\* json_format.MessageToDict builds a new dict: what clone() edits is not
\* the original's resource.
CloneOriginal(original, a) == original

\* The job ID is checked first, then an overriding display name, then
\* overriding labels.
CloneError(a) ==
    IF ~ValidNameMatch(CloneJobId(a)) THEN "ValueError:job_id"
    ELSE IF a.display_name # "" /\ ~ValidDisplayName(a.display_name)
         THEN "ValueError:display_name"
    ELSE IF a.labels # "" /\ ~ValidLabels(a.labels) THEN "ValueError:labels"
    ELSE ""

Clone(a) ==
    /\ UNCHANGED config
    /\ pc = "idle"
    /\ Constructed
    /\ args' = [a EXCEPT !.op = "clone"]
    /\ rpc' = ZeroRpc
    /\ IF CloneError(a) # ""
       THEN /\ result' = IdRaised("clone", CloneError(a),
                                  IF CloneError(a) = "ValueError:job_id"
                                  THEN CloneJobId(a) ELSE <<>>)
            /\ UNCHANGED cloned
       ELSE /\ result' = IdOk("clone", CloneJobId(a))
            /\ cloned' = [job_id |-> CloneJobId(a),
                          gca |-> [EmptyResource EXCEPT
                                      !.display_name = CloneDisplayName(a),
                                      !.pipeline_name = gca.pipeline_name,
                                      !.pipeline_spec = ClonePipelineSpec(a),
                                      !.labels = CloneLabels(a),
                                      !.encryption_spec = CloneEncryptionSpec(a),
                                      !.pipeline_root =
                                          UpdatePipelineRoot(gca.pipeline_root,
                                                             a.pipeline_root)]]
    /\ gca' = CloneOriginal(gca, a)
    /\ now' = 0
    /\ logs' = <<>>
    /\ polled' = <<>>
    /\ UNCHANGED <<job_id, remote, pc, op, loc, resp>>

-----------------------------------------------------------------------------
(* The remote service. *)

\* Errors the service may answer a request with.
CreateErrors == {"AlreadyExists", "Unavailable"}
GetErrors == {"Unavailable"}
CancelErrors == {"Unavailable"}
RemoteErrors == CreateErrors \cup GetErrors \cup CancelErrors

\* The states a create request may report for the new job.
CreatedStates == {"PENDING", "RUNNING"}

\* The job starts to run.
RemoteStart ==
    /\ UNCHANGED config
    /\ remote.exists
    /\ remote.res.state = "PENDING"
    /\ remote' = [remote EXCEPT !.res.state = "RUNNING", !.res.task_details = "root"]
    /\ UNCHANGED <<job_id, gca, cloned, pc, op, result, loc, now, logs, rpc, polled, args, resp>>

\* The running job ends: it succeeds, pauses, or fails with an error payload.
RemoteFinish ==
    /\ UNCHANGED config
    /\ remote.exists
    /\ remote.res.state = "RUNNING"
    /\ \/ \E st \in {"SUCCEEDED", "PAUSED"} :
             remote' = [remote EXCEPT !.res.state = st, !.res.task_details = "root,leaf"]
       \/ \E e \in FailedPayloads :
             remote' = [remote EXCEPT !.res.state = "FAILED", !.res.error = e,
                                      !.res.task_details = "root,leaf"]
    /\ UNCHANGED <<job_id, gca, cloned, pc, op, result, loc, now, logs, rpc, polled, args, resp>>

\* A requested cancellation takes effect.
RemoteCancelled ==
    /\ UNCHANGED config
    /\ remote.exists
    /\ remote.cancel_requested
    /\ remote.res.state \in NonTerminalStates
    /\ \E e \in CancelledPayloads :
          remote' = [remote EXCEPT !.res.state = "CANCELLED", !.res.error = e]
    /\ UNCHANGED <<job_id, gca, cloned, pc, op, result, loc, now, logs, rpc, polled, args, resp>>

\* The pipeline-run context of the job is created, some time before it ends.
RemoteContext ==
    /\ UNCHANGED config
    /\ remote.exists
    /\ remote.res.state \in NonTerminalStates
    /\ remote.res.ctx = ""
    /\ remote' = [remote EXCEPT !.res.ctx = "ctx"]
    /\ UNCHANGED <<job_id, gca, cloned, pc, op, result, loc, now, logs, rpc, polled, args, resp>>

\* The resource a successful create request returns: the one sent, under the
\* name made from the job ID, in the state the service reports.
CreatedResource(sent, id, st) == [sent EXCEPT !.name = id, !.state = st]

\* resource_name is available once the resource has been created.
Submitted == gca.name # <<>>

\* _sync_gca_resource: one get request; the response replaces the snapshot.
SyncGcaResource == remote.res

-----------------------------------------------------------------------------
(* PipelineJob.submit, run, wait *)

InitialWait == 5
InitialLogWait == 5
MaxWait == 300
Multiplier == 2
ContextPollSleep == 1

Running(o) == [op |-> o, status |-> "running", err |-> "", value |-> "", payload |-> NoError]

Bool(b) == IF b THEN "True" ELSE "False"

Min(a, b) == IF a <= b THEN a ELSE b

\* The history of polled states keeps its first MaxHist entries.
Record(h, st) == IF Len(h) < MaxHist THEN Append(h, st) ELSE h

\* "if service_account:" and "if network:" of submit.
WithRunAs(g, a) ==
    [g EXCEPT !.service_account = IF a.service_account # "" THEN a.service_account ELSE @,
              !.network = IF a.network # "" THEN a.network ELSE @]

AfterCreateMutKeepLocal(local, response) == local

\* self._gca_resource = self.api_client.create_pipeline_job(...)
AfterCreate(local, response) == response

\* The locals of _block_until_complete before its loop; the clock counts
\* from the start of the operation, so previous_time = time.time() is 0.
BlockLocals ==
    [NoLoc EXCEPT !.wait = InitialWait, !.log_wait = InitialLogWait,
                  !.max_wait = MaxWait, !.multiplier = Multiplier,
                  !.previous_time = 0]

PropagatedMutGeneric(e) == "RuntimeError"

\* No call of the API client is wrapped in try/except: the exception it
\* raises is the one the caller of the method sees.
Propagated(e) == e

\* rpc after a request of the given kind was answered with error e.
Failed(r, kind, e) == [r EXCEPT !.error = e, !.failed = kind]

RunRequestsMutPollFirst(id) == [ZeroRpc EXCEPT !.create = 1, !.create_id = id, !.get = 1]

\* run() starts with submit(): one create request, no read before it.
RunRequests(id) == [ZeroRpc EXCEPT !.create = 1, !.create_id = id]

\* _validate_experiment raises for an experiment it cannot use.
ExperimentValid(ex) == ex # "exp-bad"

\* The create request is sent before the experiment is validated.
SubmitCreatesMutCreateFirst(a) == 1

\* The create requests submit() has sent when it ends or goes on to the
\* association: _validate_experiment comes first, and its exception leaves
\* submit() before create_pipeline_job.
SubmitCreates(a) ==
    IF a.experiment # "" /\ ~ExperimentValid(a.experiment) THEN 0 ELSE 1

\* submit(): the run-as fields, the experiment check, one create request;
\* with an experiment, the association starts with _get_context.
Submit(a) ==
    /\ UNCHANGED config
    /\ pc = "idle"
    /\ Constructed
    /\ args' = a
    /\ logs' = <<>>
    /\ polled' = <<>>
    /\ now' = 0
    /\ UNCHANGED <<job_id, cloned>>
    /\ \/ /\ a.experiment # ""
          /\ ~ExperimentValid(a.experiment)
          /\ gca' = WithRunAs(gca, a)
          /\ rpc' = [ZeroRpc EXCEPT !.meta = 1, !.create = SubmitCreates(a)]
          /\ result' = Raised("submit", "ExperimentInvalid", NoError)
          /\ UNCHANGED <<remote, pc, op, loc, resp>>
       \/ /\ a.experiment # "" => ExperimentValid(a.experiment)
          /\ \/ \E e \in CreateErrors :
                   /\ rpc' = Failed([ZeroRpc EXCEPT
                                        !.create = 1, !.create_id = job_id,
                                        !.meta = IF a.experiment = "" THEN 0 ELSE 1],
                                    "create", e)
                   /\ gca' = WithRunAs(gca, a)
                   /\ result' = Raised("submit", Propagated(e), NoError)
                   /\ UNCHANGED <<remote, pc, op, loc, resp>>
             \/ \E st \in CreatedStates :
                   /\ ~remote.exists
                   /\ rpc' = [ZeroRpc EXCEPT
                                 !.create = 1, !.create_id = job_id,
                                 !.meta = IF a.experiment = "" THEN 0 ELSE 1]
                   /\ remote' = [exists |-> TRUE, cancel_requested |-> FALSE,
                                 res |-> CreatedResource(WithRunAs(gca, a), job_id, st)]
                   /\ resp' = remote'.res
                   /\ gca' = AfterCreate(WithRunAs(gca, a), remote'.res)
                   /\ IF a.experiment = ""
                      THEN /\ result' = Ok("submit", "")
                           /\ UNCHANGED <<pc, op, loc>>
                      ELSE /\ result' = Running("submit")
                           /\ op' = "submit"
                           /\ pc' = "c_cond"
                           /\ loc' = [NoLoc EXCEPT !.pipeline_run_context = gca'.ctx]

\* run(): submit() without an experiment, then _block_until_complete().
Run(a) ==
    /\ UNCHANGED config
    /\ pc = "idle"
    /\ Constructed
    /\ a.experiment = ""
    /\ args' = [a EXCEPT !.op = "run"]
    /\ logs' = <<>>
    /\ polled' = <<>>
    /\ now' = 0
    /\ UNCHANGED <<job_id, cloned>>
    /\ \/ \E e \in CreateErrors :
             /\ rpc' = Failed(RunRequests(job_id), "create", e)
             /\ gca' = WithRunAs(gca, a)
             /\ result' = Raised("run", Propagated(e), NoError)
             /\ UNCHANGED <<remote, pc, op, loc, resp>>
       \/ \E st \in CreatedStates :
             /\ ~remote.exists
             /\ rpc' = RunRequests(job_id)
             /\ remote' = [exists |-> TRUE, cancel_requested |-> FALSE,
                           res |-> CreatedResource(WithRunAs(gca, a), job_id, st)]
             /\ resp' = remote'.res
             /\ gca' = AfterCreate(WithRunAs(gca, a), remote'.res)
             /\ result' = Running("run")
             /\ op' = "run"
             /\ pc' = "w_cond"
             /\ loc' = BlockLocals

\* wait() with no pending future: _block_until_complete().
Wait ==
    /\ UNCHANGED config
    /\ pc = "idle"
    /\ Submitted
    /\ args' = [op |-> "wait"]
    /\ logs' = <<>>
    /\ polled' = <<>>
    /\ rpc' = ZeroRpc
    /\ result' = Running("wait")
    /\ op' = "wait"
    /\ pc' = "w_cond"
    /\ loc' = BlockLocals
    /\ now' = 0
    /\ UNCHANGED <<job_id, gca, cloned, remote, resp>>

-----------------------------------------------------------------------------
(* The properties state, task_details, has_failed; done() and _has_failed() *)

ReadKinds == {"state", "task_details", "has_failed", "done", "_has_failed"}

ReadValueMutCancelledFails(kind, fresh, stale) ==
    CASE kind = "state" -> fresh.state
      [] kind = "task_details" -> fresh.task_details
      [] kind = "has_failed" -> Bool(fresh.state \in {"FAILED", "CANCELLED"})
      [] kind = "done" -> Bool(fresh.state \in PIPELINE_COMPLETE_STATES)
      [] kind = "_has_failed" -> Bool(fresh.state \in {"FAILED", "CANCELLED"})

ReadValueMutStale(kind, fresh, stale) ==
    CASE kind = "state" -> stale.state
      [] kind = "task_details" -> stale.task_details
      [] kind = "has_failed" -> Bool(stale.state = "FAILED")
      [] kind = "done" -> Bool(stale.state \in PIPELINE_COMPLETE_STATES)
      [] kind = "_has_failed" -> Bool(stale.state \in PIPELINE_ERROR_STATES)

\* What a read returns, given the response of its get request (fresh) and the
\* snapshot held before it (stale): always a field of the response.
ReadValue(kind, fresh, stale) ==
    CASE kind = "state" -> fresh.state
      [] kind = "task_details" -> fresh.task_details
      [] kind = "has_failed" -> Bool(fresh.state = "FAILED")
      [] kind = "done" -> Bool(fresh.state \in PIPELINE_COMPLETE_STATES)
      [] kind = "_has_failed" -> Bool(fresh.state \in PIPELINE_ERROR_STATES)

Read(kind) ==
    /\ UNCHANGED config
    /\ pc = "idle"
    /\ Submitted
    /\ args' = [op |-> kind, held |-> gca]
    /\ logs' = <<>>
    /\ polled' = <<>>
    /\ now' = 0
    /\ UNCHANGED <<job_id, cloned, remote, pc, op, loc>>
    /\ \/ \E e \in GetErrors :
             /\ rpc' = Failed([ZeroRpc EXCEPT !.get = 1], "get", e)
             /\ result' = Raised(kind, Propagated(e), NoError)
             /\ UNCHANGED <<gca, resp>>
       \/ /\ rpc' = [ZeroRpc EXCEPT !.get = 1]
          /\ gca' = SyncGcaResource
          /\ resp' = remote.res
          /\ result' = Ok(kind, ReadValue(kind, remote.res, gca))

-----------------------------------------------------------------------------
(* PipelineJob._block_until_complete *)

\* The loop gives up after ten minutes.
LoopContinuesMutTimeout(st) == st \notin PIPELINE_COMPLETE_STATES /\ now < 600

LoopContinuesMutNoPaused(st) == st \notin {"SUCCEEDED", "FAILED", "CANCELLED"}

\* while self.state not in _PIPELINE_COMPLETE_STATES
LoopContinues(st) == st \notin PIPELINE_COMPLETE_STATES

ExitRaisesMutCancelled(st) == st \in {"FAILED", "CANCELLED"}

\* if self._gca_resource.state in _PIPELINE_ERROR_STATES
ExitRaises(st) == st \in PIPELINE_ERROR_STATES

NextLogWaitMutNoCap(l) == l.log_wait * l.multiplier

\* log_wait = min(log_wait * multiplier, max_wait)
NextLogWait(l) == Min(l.log_wait * l.multiplier, l.max_wait)

SleepTimeMutBackoff(l) == l.log_wait

\* time.sleep(wait)
SleepTime(l) == l.wait

\* The loop condition: one read of self.state.
WaitCond ==
    /\ UNCHANGED config
    /\ pc = "w_cond"
    /\ UNCHANGED <<job_id, cloned, remote, now, logs, args>>
    /\ \/ \E e \in GetErrors :
             /\ rpc' = Failed([rpc EXCEPT !.get = @ + 1], "get", e)
             /\ result' = Raised(op, Propagated(e), NoError)
             /\ pc' = "idle"
             /\ op' = "none"
             /\ loc' = NoLoc
             /\ UNCHANGED <<gca, resp, polled>>
       \/ /\ gca' = SyncGcaResource
          /\ resp' = remote.res
          /\ polled' = Record(polled, ReadValue("state", remote.res, gca))
          /\ rpc' = [rpc EXCEPT
                        !.get = @ + 1,
                        !.complete_polls =
                            IF ReadValue("state", remote.res, gca) \in PIPELINE_COMPLETE_STATES
                            THEN @ + 1 ELSE @]
          /\ pc' = IF LoopContinues(ReadValue("state", remote.res, gca))
                   THEN "w_body" ELSE "w_exit"
          /\ UNCHANGED <<result, op, loc>>

\* The loop body: a progress line when log_wait seconds have passed since
\* the last one, then the sleep. The clock stops at cap.
WaitBody(cap) ==
    /\ UNCHANGED config
    /\ pc = "w_body"
    /\ now + SleepTime(loc) <= cap
    /\ IF now - loc.previous_time >= loc.log_wait
       THEN /\ logs' = Append(logs, now)
            /\ loc' = [loc EXCEPT !.log_wait = NextLogWait(loc), !.previous_time = now]
       ELSE UNCHANGED <<logs, loc>>
    /\ now' = now + SleepTime(loc)
    /\ rpc' = [rpc EXCEPT !.sleeps = @ + 1, !.slept = @ + SleepTime(loc)]
    /\ pc' = "w_cond"
    /\ UNCHANGED <<job_id, gca, cloned, remote, op, result, polled, args, resp>>

\* The decision after the loop reads self.state once more.
ExitRequestsMutReadsState(r) == [r EXCEPT !.get = @ + 1]

\* The decision after the loop tests self._gca_resource.state, the snapshot
\* held, and makes no request.
ExitRequests(r) == r

\* After the loop: raise for a state of _PIPELINE_ERROR_STATES, else return.
WaitExit ==
    /\ UNCHANGED config
    /\ pc = "w_exit"
    /\ result' = IF ExitRaises(gca.state)
                 THEN Raised(op, "JobFailed", gca.error)
                 ELSE Ok(op, "")
    /\ rpc' = ExitRequests(rpc)
    /\ pc' = "idle"
    /\ op' = "none"
    /\ loc' = NoLoc
    /\ UNCHANGED <<job_id, gca, cloned, remote, now, logs, polled, args, resp>>

-----------------------------------------------------------------------------
(* PipelineJob.cancel *)

\* cancel() marks the job cancelled in its own snapshot.
CancelSnapshotMutMarksCancelled(local, current) == [local EXCEPT !.state = "CANCELLED"]

CancelSnapshotMutSync(local, current) == current

\* cancel() does not touch self._gca_resource.
CancelSnapshot(local, current) == local

\* One cancel request for the resource name; nothing else.
Cancel ==
    /\ UNCHANGED config
    /\ pc = "idle"
    /\ Submitted
    /\ args' = [op |-> "cancel", name |-> gca.name]
    /\ logs' = <<>>
    /\ polled' = <<>>
    /\ now' = 0
    /\ gca' = CancelSnapshot(gca, remote.res)
    /\ UNCHANGED <<job_id, cloned, pc, op, loc, resp>>
    /\ \/ \E e \in CancelErrors :
             /\ rpc' = Failed([ZeroRpc EXCEPT !.cancel = 1], "cancel", e)
             /\ result' = Raised("cancel", Propagated(e), NoError)
             /\ UNCHANGED remote
       \/ /\ rpc' = [ZeroRpc EXCEPT !.cancel = 1]
          /\ result' = Ok("cancel", "")
          /\ remote' = [remote EXCEPT !.cancel_requested = TRUE]

-----------------------------------------------------------------------------
(* PipelineJob._get_context, called by submit() to associate an experiment *)

\* "if self._has_failed:" tests the bound method, not its result.
HasFailedAttribute == TRUE

CtxBreaksMutNever(ctx) == FALSE

\* "if pipeline_run_context: break".
CtxBreaks(ctx) == ctx # ""

\* while not self.done(): one read of self.state.
CtxCond ==
    /\ UNCHANGED config
    /\ pc = "c_cond"
    /\ UNCHANGED <<job_id, cloned, remote, now, logs, args>>
    /\ \/ \E e \in GetErrors :
             /\ rpc' = Failed([rpc EXCEPT !.get = @ + 1], "get", e)
             /\ result' = Raised(op, Propagated(e), NoError)
             /\ pc' = "idle"
             /\ op' = "none"
             /\ loc' = NoLoc
             /\ UNCHANGED <<gca, resp, polled>>
       \/ /\ gca' = SyncGcaResource
          /\ resp' = remote.res
          /\ polled' = Record(polled, ReadValue("state", remote.res, gca))
          /\ rpc' = [rpc EXCEPT
                        !.get = @ + 1,
                        !.complete_polls =
                            IF ReadValue("state", remote.res, gca) \in PIPELINE_COMPLETE_STATES
                            THEN @ + 1 ELSE @,
                        !.ctx_polls = IF remote.res.ctx # "" THEN @ + 1 ELSE @]
          /\ pc' = IF ReadValue("done", remote.res, gca) = "True"
                   THEN "c_exit" ELSE "c_body"
          /\ UNCHANGED <<result, op, loc>>

\* The loop body: take the context of the snapshot, leave with it or sleep.
CtxBody(cap) ==
    /\ UNCHANGED config
    /\ pc = "c_body"
    /\ loc' = [loc EXCEPT !.pipeline_run_context = gca.ctx]
    /\ IF CtxBreaks(gca.ctx)
       THEN /\ pc' = "c_exit"
            /\ UNCHANGED <<now, rpc>>
       ELSE /\ now + ContextPollSleep <= cap
            /\ now' = now + ContextPollSleep
            /\ rpc' = [rpc EXCEPT !.sleeps = @ + 1, !.slept = @ + ContextPollSleep]
            /\ pc' = "c_cond"
    /\ UNCHANGED <<job_id, gca, cloned, remote, op, result, logs, polled, args, resp>>

\* After the loop: without a context raise, with one return it to the
\* association, which ends submit().
CtxExit ==
    /\ UNCHANGED config
    /\ pc = "c_exit"
    /\ result' = IF loc.pipeline_run_context = ""
                 THEN IF HasFailedAttribute
                      THEN Raised(op, "CannotAssociate:error", gca.error)
                      ELSE Raised(op, "CannotAssociate:context not found", NoError)
                 ELSE Ok(op, loc.pipeline_run_context)
    /\ pc' = "idle"
    /\ op' = "none"
    /\ loc' = NoLoc
    /\ UNCHANGED <<job_id, gca, cloned, remote, now, logs, rpc, polled, args, resp>>

-----------------------------------------------------------------------------
(* Inputs. *)

\* c repeated n times.
Rep(c, n) == [i \in 1..n |-> c]

\* All strings over alphabet of length at most n.
StringsUpTo(alphabet, n) == UNION {[1..k -> alphabet] : k \in 0..n}

NameAlphabet == {"a", "B", "1", "-", "_"}
IdAlphabet == {"a", "B", "1", "-", "NL"}

DemoFlow == <<"d", "e", "m", "o", "-", "f", "l", "o", "w">>
\* A name with capitals and a run of two characters outside the class.
DemoRun == <<"D", "e", "m", "o", "_", "!", "F", "l", "o", "w">>
BadId == <<"B", "a", "d", "_", "I", "D", "!">>
\* The ID the constructor derives from DemoFlow at T2024.
DemoFlowId == DerivedJobId(DemoFlow, [Y |-> 2024, M |-> 1, D |-> 2, h |-> 3, m |-> 4, s |-> 5])

\* Names whose derived IDs sit on both sides of the 128-character limit, for
\* the constructor (113, 114) and for clone (106, 107).
LongNames == {Rep("a", n) : n \in {106, 107, 113, 114}}

\* Explicit IDs on both sides of the limit, and one ending in a newline.
LongIds == {Rep("a", 128), Rep("a", 129), Rep("a", 128) \o <<"NL">>}

T2024 == [Y |-> 2024, M |-> 1, D |-> 2, h |-> 3, m |-> 4, s |-> 5]
T1999 == [Y |-> 1999, M |-> 12, D |-> 31, h |-> 23, m |-> 59, s |-> 59]
Times == {T2024, T1999}

\* A bare spec: a root DAG of two tasks, an executor and a sub-DAG of one
\* task, with a deploymentConfig.
DemoSpec ==
    PipelineSpecOf(Dag(<<"absent", "{}">>), <<NoDag, Dag(<<"enableCache:true">>)>>,
                   TRUE, Absent)

CtorArgs(d, l, t, n, j, time) ==
    [op |-> "init", display_name |-> d, labels |-> l, template_path |-> t,
     pipeline_name |-> n, job_id |-> j, time |-> time,
     template |-> Template(FALSE, FALSE, Absent, DemoSpec),
     pipeline_root |-> Absent, enable_caching |-> Absent,
     encryption_spec_key_name |-> Absent]

CloneArgs(d, l, j, time) ==
    [op |-> "clone", display_name |-> d, labels |-> l, job_id |-> j, time |-> time,
     pipeline_root |-> Absent, enable_caching |-> Absent,
     encryption_spec_key_name |-> Absent]

\* Constructor inputs of the job-identity specification.
IdCtorInputs ==
    {CtorArgs("my-pipeline", "", "local", n, j, t) :
        n \in StringsUpTo(NameAlphabet, MaxNameLen) \cup LongNames \cup {DemoFlow, DemoRun},
        j \in {NoneStr, <<>>}, t \in Times}
    \cup
    {CtorArgs(d, l, t, DemoFlow, j, T2024) :
        d \in {"my-pipeline", "", "INVALID"}, l \in {"", "INVALID"},
        t \in {"local", "gcs", "ar"},
        j \in StringsUpTo(IdAlphabet, MaxIdLen) \cup LongIds \cup {BadId}}

IdCloneInputs ==
    {CloneArgs("", "", j, t) :
        j \in {NoneStr, <<>>, <<"a", "1">>, <<"1", "a">>, <<"a", "NL">>, BadId},
        t \in Times}
    \cup
    {CloneArgs(d, l, NoneStr, T2024) : d \in {"", "INVALID"}, l \in {"", "INVALID"}}

-----------------------------------------------------------------------------
(* The state before the constructor has run. *)

Init ==
    /\ job_id = NoneStr
    /\ gca = EmptyResource
    /\ cloned = NoClone
    /\ remote = NoRemote
    /\ pc = "idle"
    /\ op = "none"
    /\ result = NoResult
    /\ loc = NoLoc
    /\ now = 0
    /\ logs = <<>>
    /\ rpc = ZeroRpc
    /\ polled = <<>>
    /\ args = NoArgs
    /\ resp = EmptyResource
    /\ config = NoConfig

-----------------------------------------------------------------------------
(* The job-identity specification: the constructor applied to one input,   *)
(* then clone() applied to the object it made.                            *)

InitId ==
    /\ job_id = NoneStr
    /\ gca = EmptyResource
    /\ cloned = NoClone
    /\ remote = NoRemote
    /\ pc = "idle"
    /\ op = "none"
    /\ result = NoResult
    /\ loc = NoLoc
    /\ now = 0
    /\ logs = <<>>
    /\ rpc = ZeroRpc
    /\ polled = <<>>
    /\ args \in IdCtorInputs
    /\ resp = EmptyResource
    /\ config = NoConfig

NextId ==
    \/ /\ result.op = "none"
       /\ Construct(args)
    \/ /\ result.op = "init"
       /\ \E a \in IdCloneInputs : Clone(a)

SpecId == InitId /\ [][NextId]_vars

-----------------------------------------------------------------------------
(* The lifecycle specification: one object, constructed, submitted, read,  *)
(* waited for, cancelled and cloned, against the service.                  *)

SubmitArgs(sa, nw, ex) ==
    [op |-> "submit", service_account |-> sa, network |-> nw, experiment |-> ex]

LifeCtorInputs ==
    {CtorArgs("my-pipeline", "", "local", DemoFlow, j, T2024) : j \in {NoneStr, BadId}}

LifeSubmitInputs ==
    {SubmitArgs("", "", ex) : ex \in {"", "exp-ok", "exp-bad"}}
    \cup {SubmitArgs("sa@project", "net", "")}

LifeCloneInputs ==
    {CloneArgs("", "", NoneStr, T1999),
     [CloneArgs("", "team=b", NoneStr, T1999) EXCEPT
         !.enable_caching = "False", !.pipeline_root = "gs://clone",
         !.encryption_spec_key_name = "key-clone"]}

Next ==
    \/ \E a \in LifeCtorInputs : Construct(a)
    \/ \E a \in LifeSubmitInputs : Submit(a)
    \/ \E a \in LifeSubmitInputs : Run(a)
    \/ Wait
    \/ WaitCond
    \/ WaitBody(MaxTime)
    \/ WaitExit
    \/ CtxCond
    \/ CtxBody(MaxTime)
    \/ CtxExit
    \/ \E kind \in ReadKinds : Read(kind)
    \/ Cancel
    \/ \E a \in LifeCloneInputs : Clone(a)
    \/ RemoteStart
    \/ RemoteFinish
    \/ RemoteCancelled
    \/ RemoteContext

Spec == Init /\ [][Next]_vars

-----------------------------------------------------------------------------
(* The timing specification: one wait(), started at clock 0 on a submitted *)
(* job, followed for MaxClock seconds.                                     *)

SubmittedDemo ==
    [EmptyResource EXCEPT !.name = DemoFlowId, !.state = "PENDING",
                          !.display_name = "my-pipeline", !.pipeline_name = DemoFlow]

InitClock ==
    /\ job_id = DemoFlowId
    /\ gca = SubmittedDemo
    /\ cloned = NoClone
    /\ remote = [exists |-> TRUE, cancel_requested |-> FALSE, res |-> SubmittedDemo]
    /\ pc = "idle"
    /\ op = "none"
    /\ result = NoResult
    /\ loc = NoLoc
    /\ now = 0
    /\ logs = <<>>
    /\ rpc = ZeroRpc
    /\ polled = <<>>
    /\ args = NoArgs
    /\ resp = SubmittedDemo
    /\ config = NoConfig

NextClock ==
    \/ /\ result.op = "none"
       /\ Wait
    \/ WaitCond
    \/ WaitBody(MaxClock)
    \/ WaitExit
    \/ RemoteStart
    \/ RemoteFinish

SpecClock == InitClock /\ [][NextClock]_vars

\* The same with a thread that keeps running: each step of the wait that can
\* be taken is eventually taken.
SpecBlock ==
    /\ InitClock
    /\ [][NextClock]_vars
    /\ WF_vars(WaitCond)
    /\ WF_vars(WaitBody(MaxClock))
    /\ WF_vars(WaitExit)

-----------------------------------------------------------------------------
(* The lookup specification: one submit() with an experiment on a          *)
(* constructed job; the thread that runs _get_context keeps running.       *)

ConstructedDemo ==
    [EmptyResource EXCEPT !.display_name = "my-pipeline", !.pipeline_name = DemoFlow]

InitCtx ==
    /\ job_id = DemoFlowId
    /\ gca = ConstructedDemo
    /\ cloned = NoClone
    /\ remote = NoRemote
    /\ pc = "idle"
    /\ op = "none"
    /\ result = NoResult
    /\ loc = NoLoc
    /\ now = 0
    /\ logs = <<>>
    /\ rpc = ZeroRpc
    /\ polled = <<>>
    /\ args = NoArgs
    /\ resp = EmptyResource
    /\ config = NoConfig

NextCtx ==
    \/ /\ result.op = "none"
       /\ Submit(SubmitArgs("", "", "exp-ok"))
    \/ CtxCond
    \/ CtxBody(MaxTime)
    \/ CtxExit
    \/ RemoteStart
    \/ RemoteFinish
    \/ RemoteContext

SpecCtx ==
    /\ InitCtx
    /\ [][NextCtx]_vars
    /\ WF_vars(CtxCond)
    /\ WF_vars(CtxBody(MaxTime))
    /\ WF_vars(CtxExit)

-----------------------------------------------------------------------------
(* The request specification: the constructor applied to one template and  *)
(* one set of arguments under one global configuration, then clone()       *)
(* applied to the object, and to a clone the caller goes on with.          *)

\* The components a template may have.
ComponentShapes == {NoDag, Dag(<<"absent", "enableCache:false">>)}

\* Bare specs with every root of at most MaxTasks tasks and at most
\* MaxComponents components.
CachingSpecs ==
    {PipelineSpecOf(root, components, TRUE, Absent) :
        root \in {NoDag} \cup {Dag(cs) : cs \in StringsUpTo(CachingValues, MaxTasks)},
        components \in StringsUpTo(ComponentShapes, MaxComponents)}

PayloadArgs(template, pipeline_root, enable_caching, key, labels) ==
    [CtorArgs("my-pipeline", labels, "local", DemoFlow, NoneStr, T2024) EXCEPT
        !.template = template, !.pipeline_root = pipeline_root,
        !.enable_caching = enable_caching, !.encryption_spec_key_name = key]

CachingInputs ==
    {PayloadArgs(Template(FALSE, FALSE, Absent, sp), Absent, c, Absent, "") :
        sp \in CachingSpecs, c \in {Absent, "True", "False"}}

Roots(r) == {Absent, "", r}

\* Bare specs and full job specs, without a "runtimeConfig" key or with one
\* that may hold a gcsOutputDirectory (in a bare spec the key is a stray).
RootTemplates ==
    {Template(j, FALSE, Absent, PipelineSpecOf(Dag(<<"absent">>), <<>>, FALSE, d)) :
        j \in BOOLEAN, d \in Roots("gs://default")}
    \cup
    {Template(j, TRUE, g, PipelineSpecOf(Dag(<<"absent">>), <<>>, FALSE, d)) :
        j \in BOOLEAN, g \in Roots("gs://output"), d \in Roots("gs://default")}

RootInputs ==
    {PayloadArgs(t, r, Absent, Absent, "") : t \in RootTemplates, r \in Roots("gs://arg")}

KeyInputs ==
    {PayloadArgs(Template(FALSE, FALSE, Absent, DemoSpec), Absent, Absent, k, l) :
        k \in {Absent, "key-arg"}, l \in {"", "team=a"}}

Configs ==
    {[staging_bucket |-> b, encryption_spec_key_name |-> k] :
        b \in Roots("gs://staging"), k \in {Absent, "key-global"}}

PayloadCloneArgs(enable_caching, labels, key, pipeline_root, time) ==
    [CloneArgs("", labels, NoneStr, time) EXCEPT
        !.enable_caching = enable_caching, !.encryption_spec_key_name = key,
        !.pipeline_root = pipeline_root]

\* clone() with no overrides.
PlainClone(time) == CloneArgs("", "", NoneStr, time)

PayloadCloneInputs ==
    {PlainClone(T1999), PlainClone(T2024)}
    \cup {PayloadCloneArgs(c, "", Absent, Absent, T1999) : c \in {"True", "False"}}
    \cup {PayloadCloneArgs(Absent, "team=b", "key-clone", "gs://clone", T1999),
          PayloadCloneArgs("True", "team=b", Absent, "gs://clone", T1999)}

\* The caller goes on with the object a plain clone() of an unsubmitted job
\* returned (job = job.clone()).
AdoptClone ==
    /\ pc = "idle"
    /\ result.op = "clone"
    /\ result.status = "ok"
    /\ args \in {PlainClone(t) : t \in Times}
    /\ ~remote.exists
    /\ cloned # NoClone
    /\ SubSeq(job_id, 1, Len(ClonedPrefix)) # ClonedPrefix
    /\ job_id' = cloned.job_id
    /\ gca' = cloned.gca
    /\ cloned' = NoClone
    /\ result' = IdOk("adopt", cloned.job_id)
    /\ UNCHANGED <<remote, pc, op, loc, now, logs, rpc, polled, args, resp, config>>

InitPayload ==
    /\ job_id = NoneStr
    /\ gca = EmptyResource
    /\ cloned = NoClone
    /\ remote = NoRemote
    /\ pc = "idle"
    /\ op = "none"
    /\ result = NoResult
    /\ loc = NoLoc
    /\ now = 0
    /\ logs = <<>>
    /\ rpc = ZeroRpc
    /\ polled = <<>>
    /\ resp = EmptyResource
    /\ \/ args \in CachingInputs /\ config = NoConfig
       \/ args \in RootInputs /\ config \in Configs
       \/ args \in KeyInputs /\ config \in Configs

NextPayload ==
    \/ /\ result.op = "none"
       /\ Construct(args)
    \/ /\ result.op \in {"init", "adopt"}
       /\ \E a \in PayloadCloneInputs : Clone(a)
    \/ AdoptClone

SpecPayload == InitPayload /\ [][NextPayload]_vars

-----------------------------------------------------------------------------
(* Job identity: what the statements about it say, written independently   *)
(* of the operators above.                                                 *)

IdentityLetters == {"a", "b", "c", "d", "e", "f", "i", "l", "m", "n", "o", "w"}
IdentityDigits == {"0", "1", "2", "3", "4", "5", "6", "7", "8", "9"}
IdentityChars == IdentityLetters \cup IdentityDigits \cup {"-"}

\* A lowercase letter, then up to 127 lowercase letters, digits or hyphens.
IsJobIdentity(s) ==
    /\ Len(s) \in 1..128
    /\ s[1] \in IdentityLetters
    /\ \A i \in 2..Len(s) : s[i] \in IdentityChars

ExpectedLower(c) ==
    IF c = "B" THEN "b" ELSE IF c = "D" THEN "d" ELSE IF c = "F" THEN "f"
    ELSE IF c = "I" THEN "i" ELSE c

\* S: the lowercased name with each maximal run outside [0-9a-z-] replaced
\* by one hyphen, then without its leading and trailing hyphens.
ExpectedSanitized(name) ==
    LET low == [i \in 1..Len(name) |-> ExpectedLower(name[i])]
        good == {i \in 1..Len(name) : low[i] \in IdentityChars}
        \* one position for each character kept and for each run replaced
        kept == {i \in 1..Len(name) : i \in good \/ (i - 1) \in good \/ i = 1}
        out(i) == IF i \in good THEN low[i] ELSE "-"
        \* positions that survive the trimming: between the first and the
        \* last kept position that does not put out a hyphen
        solid == {i \in kept : out(i) # "-"}
        body == {i \in kept : /\ \E j \in solid : j <= i
                              /\ \E j \in solid : j >= i}
        nth(k) == CHOOSE i \in body : Cardinality({j \in body : j <= i}) = k
    IN  [k \in 1..Cardinality(body) |-> out(nth(k))]

\* The decimal digit of n at 10^e.
DigitAt(n, e) == DigitSeq[((n \div (10 ^ e)) % 10) + 1]

\* T: YYYYMMDDHHMMSS.
ExpectedStamp(t) ==
    LET date == (t.Y * 10000) + (t.M * 100) + t.D
        time == (t.h * 10000) + (t.m * 100) + t.s
    IN  [k \in 1..14 |-> IF k <= 8 THEN DigitAt(date, 8 - k) ELSE DigitAt(time, 14 - k)]

ExpectedId(prefix, name, t) ==
    prefix \o ExpectedSanitized(name) \o <<"-">> \o ExpectedStamp(t)

DemoFlowId2024 ==
    <<"d", "e", "m", "o", "-", "f", "l", "o", "w", "-",
      "2", "0", "2", "4", "0", "1", "0", "2", "0", "3", "0", "4", "0", "5">>

ClonedDemoFlowId1999 ==
    <<"c", "l", "o", "n", "e", "d", "-",
      "d", "e", "m", "o", "-", "f", "l", "o", "w", "-",
      "1", "9", "9", "9", "1", "2", "3", "1", "2", "3", "5", "9", "5", "9">>

\* The constructor or clone() got as far as settling a job ID.
SettledId(o) ==
    /\ result.op = o
    /\ result.status = "ok" \/ result.err = "ValueError:job_id"

\* C5 (as claimed): every PipelineJob made by the constructor or by clone()
\* has a job ID that is a lowercase letter followed by at most 127 lowercase
\* letters, digits or hyphens.
C5_EveryJobIdIsAnIdentity ==
    /\ Constructed => IsJobIdentity(job_id)
    /\ cloned.job_id # NoneStr => IsJobIdentity(cloned.job_id)

\* C6: with no job ID supplied the ID settled on is P + S + "-" + T, P empty
\* in the constructor and "cloned-" in clone(); a non-empty supplied ID is
\* used unchanged; "demo-flow" at 2024-01-02T03:04:05 gives
\* "demo-flow-20240102030405".
C6_DerivedJobId ==
    /\ SettledId("init") =>
          /\ result.value =
                IF args.job_id \in {NoneStr, <<>>}
                THEN ExpectedId(<<>>, args.pipeline_name, args.time)
                ELSE args.job_id
          /\ result.status = "ok" => job_id = result.value
          /\ (args.job_id \in {NoneStr, <<>>} /\ args.pipeline_name = DemoFlow
                 /\ args.time = T2024) => job_id = DemoFlowId2024
    /\ SettledId("clone") =>
          /\ result.value =
                IF args.job_id \in {NoneStr, <<>>}
                THEN ExpectedId(<<"c", "l", "o", "n", "e", "d", "-">>,
                                gca.pipeline_name, args.time)
                ELSE args.job_id
          /\ result.status = "ok" => cloned.job_id = result.value

\* C6 witness: an object derived from a name that needs lowercasing and a
\* run replaced, cloned with no job ID supplied.
C6_Witness ==
    /\ result.op = "clone"
    /\ result.status = "ok"
    /\ args.job_id = NoneStr
    /\ gca.pipeline_name = DemoRun
    /\ job_id = DemoFlowId2024
    /\ cloned.job_id = ClonedDemoFlowId1999

\* The constructor rejected an explicitly supplied job ID.
ExplicitIdRejected ==
    /\ result.op = "init"
    /\ result.err = "ValueError:job_id"
    /\ args.job_id \notin {NoneStr, <<>>}

\* C7 (as claimed): an explicitly supplied job ID that fails the pattern is
\* rejected before any network call: no template fetch from remote storage
\* and no control-plane request precedes the rejection.
C7_RejectedBeforeAnyNetworkCall ==
    ExplicitIdRejected =>
        /\ rpc.fetch = 0
        /\ rpc.create = 0 /\ rpc.get = 0 /\ rpc.cancel = 0 /\ rpc.delete = 0

\* C7 (amended): an explicitly supplied job ID that fails the pattern is
\* rejected before any control-plane request, but after the template has
\* been loaded: a template at a remote location has been fetched once.
C7_RejectedAfterTemplateLoad ==
    ExplicitIdRejected =>
        /\ rpc.create = 0 /\ rpc.get = 0 /\ rpc.cancel = 0 /\ rpc.delete = 0
        /\ ~remote.exists
        /\ rpc.fetch = IF args.template_path = "local" THEN 0 ELSE 1

\* C7 witness: "Bad_ID!" rejected with the template in a storage bucket.
C7_Witness ==
    /\ ExplicitIdRejected
    /\ args.job_id = BadId
    /\ args.template_path = "gcs"
    /\ rpc.fetch = 1

-----------------------------------------------------------------------------
(* The blocking wait, submit, the reads and cancel. *)

InBlockLoop == pc \in {"w_cond", "w_body"}

\* _block_until_complete has returned, or raised its job-failed error.
BlockReturned ==
    /\ pc = "idle"
    /\ result.op \in {"wait", "run"}
    /\ result.status = "ok" \/ result.err = "JobFailed"

PPRRS == <<"PENDING", "PENDING", "RUNNING", "RUNNING", "SUCCEEDED">>

Terminal == {"SUCCEEDED", "FAILED", "CANCELLED", "PAUSED"}

\* C1: the blocking wait neither returns nor raises a job failure while all
\* polled states are non-terminal, and it leaves at the first poll of a
\* state in {SUCCEEDED, FAILED, CANCELLED, PAUSED} with no further read and
\* no further sleep; polling [pending, pending, running, running,
\* succeeded] it leaves at the fifth poll.
C1_ExitsAtFirstTerminalPoll ==
    /\ InBlockLoop =>
          /\ rpc.complete_polls = 0
          /\ \A i \in 1..Len(polled) : polled[i] \notin Terminal
          /\ rpc.get = rpc.sleeps + (IF pc = "w_body" THEN 1 ELSE 0)
    /\ (pc = "w_exit" \/ BlockReturned) =>
          /\ rpc.complete_polls = 1
          /\ resp.state \in Terminal
          /\ rpc.get = rpc.sleeps + 1
          /\ rpc.get <= MaxHist =>
                /\ Len(polled) = rpc.get
                /\ polled[Len(polled)] \in Terminal
                /\ \A i \in 1..(Len(polled) - 1) : polled[i] \notin Terminal
    /\ (polled = PPRRS /\ (pc \in {"w_cond", "w_body", "w_exit"} \/ BlockReturned)) =>
          /\ ~InBlockLoop
          /\ rpc.get = 5
          /\ rpc.sleeps = 4

\* C1 witness: wait() has returned after polling pending, pending, running,
\* running, succeeded.
C1_Witness ==
    /\ BlockReturned
    /\ result.op = "wait"
    /\ result.status = "ok"
    /\ polled = PPRRS
    /\ rpc.get = 5
    /\ rpc.sleeps = 4
    /\ now = 20

\* C2: when the blocking wait ends it raises the job-failed error, carrying
\* the error payload of the response that ended the loop, if and only if
\* that response's state is FAILED; for SUCCEEDED, CANCELLED and PAUSED it
\* returns normally.
C2_RaisesIffFailed ==
    BlockReturned =>
        /\ result.status = "raised" <=> resp.state = "FAILED"
        /\ resp.state = "FAILED" =>
              /\ result.err = "JobFailed"
              /\ result.payload = resp.error
              /\ result.payload = remote.res.error
        /\ resp.state \in {"SUCCEEDED", "CANCELLED", "PAUSED"} => result.status = "ok"

\* C2 witness: wait() raised with the payload {code 9, "quota exceeded"}.
C2_Witness ==
    /\ BlockReturned
    /\ result.status = "raised"
    /\ resp.state = "FAILED"
    /\ result.payload = [code |-> 9, message |-> "quota exceeded"]

SubmitCalled == result.op = "submit" /\ result.status # "none"

\* C3 (as claimed): each call of submit() issues exactly one create request
\* carrying the job ID; a failed request reaches the caller and is not
\* repeated; after a successful one the local resource is the one returned.
C3_ExactlyOneCreate ==
    SubmitCalled =>
        /\ rpc.create = 1
        /\ rpc.create_id = job_id
        /\ result.status \in {"ok", "running"} => gca = resp /\ gca.name = job_id

\* C3 (amended): each call of submit() issues at most one create request,
\* carrying the job ID: none when the experiment given fails validation,
\* else exactly one; a failed request reaches the caller and is not
\* repeated; after a successful one the local resource is the one returned.
C3_AtMostOneCreate ==
    SubmitCalled =>
        /\ rpc.create \in {0, 1}
        /\ rpc.create = 0 <=>
              (result.status = "raised" /\ result.err = "ExperimentInvalid")
        /\ rpc.create = 0 => args.experiment = "exp-bad" /\ rpc.get = 0
        /\ rpc.create = 1 => rpc.create_id = job_id
        /\ (result.status = "raised" /\ rpc.get = 0 /\ rpc.create = 1) =>
              result.err \in {"AlreadyExists", "Unavailable"}
        /\ result.status \in {"ok", "running"} =>
              /\ gca = resp
              /\ gca.name = job_id
              /\ rpc.get = 0 => gca.state \in {"PENDING", "RUNNING"}

\* C3 witness: a second submit() of a submitted job met the duplicate job-ID
\* conflict, after one create request.
C3_Witness ==
    /\ result.op = "submit"
    /\ result.status = "raised"
    /\ result.err = "AlreadyExists"
    /\ rpc.create = 1
    /\ remote.exists
    /\ gca.name = job_id

ReadEnded(kinds) == pc = "idle" /\ result.op \in kinds

\* C4: every read of state, task_details or has_failed makes exactly one get
\* request and returns the value of that response, which is also the
\* snapshot held afterwards.
C4_ReadsAreFresh ==
    ReadEnded({"state", "task_details", "has_failed"}) =>
        /\ rpc.get = 1
        /\ rpc.create = 0 /\ rpc.cancel = 0 /\ rpc.sleeps = 0
        /\ result.status = "ok" =>
              /\ gca = resp
              /\ result.op = "state" => result.value = resp.state
              /\ result.op = "task_details" => result.value = resp.task_details
              /\ result.op = "has_failed" =>
                    result.value = IF resp.state = "FAILED" THEN "True" ELSE "False"

\* C4 witness: a read of state made while the snapshot said PENDING returned
\* SUCCEEDED.
C4_Witness ==
    /\ ReadEnded({"state"})
    /\ result.status = "ok"
    /\ args.held.state = "PENDING"
    /\ result.value = "SUCCEEDED"

\* The clock time of the k-th progress line.
LogTime(k) == IF k <= 6 THEN <<5, 15, 35, 75, 155, 315>>[k] ELSE 315 + (300 * (k - 6))

\* The gap required before the line after k lines.
LogGap(k) == IF 5 * (2 ^ k) <= 300 THEN 5 * (2 ^ k) ELSE 300

\* C8: with polls 5 seconds apart the progress lines come at 5, 15, 35, 75,
\* 155, 315 and then every 300 seconds: the gap required starts at 5,
\* doubles after each line, never exceeds 300, and no line comes sooner.
C8_LogCadence ==
    pc \in {"w_cond", "w_body", "w_exit"} =>
        /\ \A k \in 1..Len(logs) : logs[k] = LogTime(k)
        /\ \A k \in 1..((now \div 5) + 1) : LogTime(k) <= now - 5 => k <= Len(logs)
        /\ loc.log_wait = LogGap(Len(logs))
        /\ loc.log_wait <= 300
        /\ \A k \in 2..Len(logs) : logs[k] - logs[k - 1] >= LogGap(k - 1)
        /\ Len(logs) >= 1 => logs[1] >= LogGap(0)

\* C8 witness: the eighth line, at 915 seconds.
C8_Witness ==
    /\ pc = "w_cond"
    /\ now = 920
    /\ Len(logs) = 8
    /\ logs[7] = 615
    /\ logs[8] = 915

C10_CancelOnlyCancels ==
    [][(pc = "idle" /\ pc' = "idle" /\ result'.op = "cancel") =>
          /\ gca' = gca
          /\ job_id' = job_id
          /\ resp' = resp
          /\ rpc'.cancel = 1
          /\ args'.name = gca.name /\ gca.name = job_id
          /\ rpc'.get = 0 /\ rpc'.delete = 0 /\ rpc'.create = 0
          /\ rpc'.sleeps = 0 /\ now' = 0]_vars

\* C10 witness: cancel() has returned, the snapshot still says RUNNING and
\* the job is CANCELLED at the service.
C10_Witness ==
    /\ pc = "idle"
    /\ result.op = "cancel"
    /\ result.status = "ok"
    /\ rpc.cancel = 1
    /\ gca.state = "RUNNING"
    /\ remote.cancel_requested
    /\ remote.res.state = "CANCELLED"

-----------------------------------------------------------------------------
(* run(), and errors of the service. *)

\* C11: run() performs submit() and then the blocking wait: its first state
\* poll is made only after its create request has returned a resource, and
\* when the create request fails run() ends with that error without a poll
\* or a sleep.
C11_RunSubmitsThenWaits ==
    [][(result'.op = "run") =>
          /\ rpc'.create = 1
          /\ rpc'.create_id = job_id'
          /\ (rpc'.get >= 1 /\ (result.op # "run" \/ rpc.get = 0)) =>
                /\ result.op = "run"
                /\ pc = "w_cond"
                /\ rpc.create = 1
                /\ rpc.failed = ""
                /\ remote.exists
                /\ gca.name = job_id
          /\ rpc'.failed = "create" =>
                /\ pc' = "idle"
                /\ result'.status = "raised"
                /\ result'.err = rpc'.error
                /\ rpc'.get = 0
                /\ rpc'.sleeps = 0]_vars

\* C11 witness: run() ended with the duplicate-ID conflict of its create
\* request, without a poll.
C11_Witness ==
    /\ pc = "idle"
    /\ result.op = "run"
    /\ result.err = "AlreadyExists"
    /\ rpc.failed = "create"
    /\ rpc.create = 1
    /\ rpc.get = 0

CallEnded == pc = "idle" /\ result.status \in {"ok", "raised"}

\* C17: an error the service answers a control-plane request with is never
\* swallowed or retried: the method ends there with that same error; a
\* failing get in the blocking wait is the wait's last request and no sleep
\* follows it; a failing create or cancel is the only request of that kind.
C17_RemoteErrorsPropagate ==
    rpc.failed # "" =>
        /\ CallEnded
        /\ result.status = "raised"
        /\ result.err = rpc.error
        /\ rpc.failed = "create" =>
              result.op \in {"submit", "run"} /\ rpc.create = 1 /\ rpc.get = 0
        /\ rpc.failed = "cancel" => result.op = "cancel" /\ rpc.cancel = 1
        /\ (rpc.failed = "get" /\ result.op \in {"wait", "run"}) =>
              /\ rpc.sleeps = rpc.get - 1
              /\ rpc.complete_polls = 0
              /\ rpc.get <= MaxHist => Len(polled) = rpc.get - 1

\* C17 witness: the third poll of wait() failed and wait() raised that error
\* after two sleeps.
C17_Witness ==
    /\ CallEnded
    /\ result.op = "wait"
    /\ result.err = "Unavailable"
    /\ rpc.failed = "get"
    /\ rpc.get = 3
    /\ rpc.sleeps = 2

-----------------------------------------------------------------------------
(* has_failed, _has_failed() and done(). *)

\* C18: a has_failed read returns true exactly when the state its get
\* request fetched is FAILED, so the first read made with the remote job
\* FAILED returns true, and CANCELLED and PAUSED give false; _has_failed()
\* likewise; and a state for which either is true is one for which done()
\* is true.
C18_HasFailedIffFailed ==
    [][(pc' = "idle" /\ result'.status = "ok" /\ remote' = remote
          /\ result'.op \in {"has_failed", "_has_failed", "done"}) =>
          /\ resp' = remote.res
          /\ result'.op = "has_failed" =>
                /\ result'.value = "True" <=> remote.res.state = "FAILED"
                /\ result'.value = "False" <=> remote.res.state # "FAILED"
          /\ result'.op = "_has_failed" =>
                /\ result'.value = "True" <=> remote.res.state = "FAILED"
                /\ result'.value = "False" <=> remote.res.state # "FAILED"
          /\ result'.op = "done" =>
                /\ result'.value = "True" <=>
                      remote.res.state \in {"SUCCEEDED", "FAILED", "CANCELLED", "PAUSED"}
                /\ remote.res.state = "FAILED" => result'.value = "True"]_vars

\* C18 witness: has_failed read true on a job FAILED at the service while
\* the snapshot held still said RUNNING.
C18_Witness ==
    /\ ReadEnded({"has_failed"})
    /\ result.status = "ok"
    /\ result.value = "True"
    /\ resp.state = "FAILED"
    /\ args.held.state = "RUNNING"

-----------------------------------------------------------------------------
(* The lineage-context lookup. *)

\* _get_context has returned a context to the association or raised its
\* own error (no request of it was answered with an error).
CtxLookupEnded ==
    /\ pc = "idle"
    /\ result.op = "submit"
    /\ result.status \in {"ok", "raised"}
    /\ rpc.get >= 1
    /\ rpc.failed = ""

\* C19: the lookup raises exactly when its last poll observed a terminal
\* state and the job has no pipeline-run context; when the snapshot in
\* which the terminal state was observed carries a context the lookup
\* returns that context.
C19_RaisesIffNoContext ==
    CtxLookupEnded =>
        /\ result.status = "raised" <=>
              (resp.state \in PIPELINE_COMPLETE_STATES /\ resp.ctx = "")
        /\ (resp.state \in PIPELINE_COMPLETE_STATES /\ resp.ctx # "") =>
              result.status = "ok" /\ result.value = resp.ctx

InCtxLoop == pc \in {"c_cond", "c_body", "c_exit"}

\* The polling of _get_context at each point of the loop.
CtxPolling ==
    /\ InCtxLoop =>
          /\ rpc.slept = rpc.sleeps
          /\ now = rpc.sleeps
          /\ rpc.get = now + (IF pc = "c_cond" THEN 0 ELSE 1)
    /\ pc = "c_cond" => rpc.complete_polls = 0 /\ rpc.ctx_polls = 0
    /\ pc = "c_body" => rpc.complete_polls = 0 /\ rpc.ctx_polls <= 1
    /\ (pc = "c_body" /\ rpc.ctx_polls = 1) => resp.ctx # ""
    /\ (pc = "c_exit" \/ CtxLookupEnded) =>
          /\ rpc.get = rpc.sleeps + 1
          /\ rpc.complete_polls <= 1 /\ rpc.ctx_polls <= 1
          /\ rpc.complete_polls = 1 \/ rpc.ctx_polls = 1
          /\ resp.state \in PIPELINE_COMPLETE_STATES \/ resp.ctx # ""
          /\ rpc.get <= MaxHist =>
                \A i \in 1..(Len(polled) - 1) : polled[i] \notin PIPELINE_COMPLETE_STATES

\* C20: the lookup polls once a second; it stops at the first poll that
\* observes a context or a terminal state and does not sleep after it; and
\* once the remote job is terminal the lookup ends.
C20_LookupPollsUntilContextOrTerminal ==
    /\ []CtxPolling
    /\ (InCtxLoop /\ remote.res.state \in PIPELINE_COMPLETE_STATES
           /\ (pc = "c_body" => now < MaxTime))
          ~> (pc = "idle" /\ result.op = "submit" /\ result.status \in {"ok", "raised"})

\* C20 witness: the lookup ended at its fourth poll, the first to observe a
\* terminal state, after three sleeps of one second, with no context.
C20_Witness ==
    /\ CtxLookupEnded
    /\ rpc.get = 4
    /\ rpc.sleeps = 3
    /\ now = 3
    /\ polled = <<"PENDING", "RUNNING", "RUNNING", "PAUSED">>
    /\ rpc.ctx_polls = 0

-----------------------------------------------------------------------------
(* The request of a constructed and of a cloned job. *)

CloneReturned == pc = "idle" /\ result.op = "clone" /\ result.status = "ok"

ConstructorReturned == pc = "idle" /\ result.op = "init" /\ result.status = "ok"

\* C12: clone() with no overrides gives a request whose pipeline spec is the
\* original's without its deploymentConfig, whose labels and encryption
\* spec are the original's, and whose job ID is derived anew and is not the
\* original's job ID.
C12_PlainCloneKeepsRequest ==
    (CloneReturned /\ args \in {CloneArgs("", "", NoneStr, t) : t \in Times}) =>
        /\ cloned.gca.pipeline_spec.root = gca.pipeline_spec.root
        /\ cloned.gca.pipeline_spec.components = gca.pipeline_spec.components
        /\ cloned.gca.pipeline_spec.defaultPipelineRoot = gca.pipeline_spec.defaultPipelineRoot
        /\ ~cloned.gca.pipeline_spec.deploymentConfig
        /\ cloned.gca.labels = gca.labels
        /\ cloned.gca.encryption_spec = gca.encryption_spec
        /\ cloned.job_id = ExpectedId(<<"c", "l", "o", "n", "e", "d", "-">>,
                                      gca.pipeline_name, args.time)
        /\ cloned.job_id # job_id

\* C13: clone() makes no create, get, cancel or delete request and returns
\* an unsubmitted job; the original's job ID and resource, its pipeline spec
\* included, are as before, whatever the overrides and whether or not the
\* clone's pipeline spec differs from the original's.
C13_CloneLeavesOriginal ==
    [][(pc = "idle" /\ pc' = "idle" /\ result'.op = "clone" /\ remote' = remote) =>
          /\ gca' = gca
          /\ job_id' = job_id
          /\ rpc'.create = 0 /\ rpc'.get = 0 /\ rpc'.cancel = 0 /\ rpc'.delete = 0
          /\ rpc'.fetch = 0 /\ rpc'.meta = 0
          /\ result'.status = "ok" =>
                /\ cloned'.job_id # NoneStr
                /\ cloned'.gca.name = <<>>
                /\ cloned'.gca.state = "UNSPECIFIED"]_vars

\* C13 witness: a clone of a RUNNING job, made with enable_caching=False, has
\* another pipeline spec than the original, which still has its
\* deploymentConfig and its tasks' caching options.
C13_Witness ==
    /\ CloneReturned
    /\ args.enable_caching = "False"
    /\ gca.state = "RUNNING"
    /\ gca.pipeline_spec.deploymentConfig
    /\ gca.pipeline_spec.root.tasks[1].cachingOptions = "absent"
    /\ cloned.gca.pipeline_spec.root.tasks[1].cachingOptions = "enableCache:false"
    /\ ~cloned.gca.pipeline_spec.deploymentConfig
    /\ cloned.gca.state = "UNSPECIFIED"

\* The sources of the pipeline root, in the order of their priority.
RootSources ==
    <<args.pipeline_root,
      args.template.spec.defaultPipelineRoot,
      IF args.template.is_job_spec THEN args.template.gcsOutputDirectory ELSE "<absent>",
      config.staging_bucket>>

RootGiven(i) == RootSources[i] \notin {"<absent>", ""}

\* C14: the pipeline root the constructor hands to the runtime-config
\* builder is the first non-empty one of: the pipeline_root argument, the
\* spec's defaultPipelineRoot, the job spec's runtimeConfig.gcsOutputDirectory
\* (full job specs only), the staging bucket.
C14_PipelineRootPriority ==
    ConstructorReturned =>
        /\ \A i \in 1..4 :
              (RootGiven(i) /\ \A j \in 1..(i - 1) : ~RootGiven(j)) =>
                  gca.pipeline_root = RootSources[i]
        /\ (\A i \in 1..4 : ~RootGiven(i)) => gca.pipeline_root = ""

\* C14 witness: argument empty, no default in the spec, and the job spec's
\* gcsOutputDirectory is taken although a staging bucket is set.
C14_Witness ==
    /\ ConstructorReturned
    /\ args.pipeline_root = ""
    /\ args.template.spec.defaultPipelineRoot = "<absent>"
    /\ args.template.is_job_spec
    /\ args.template.gcsOutputDirectory = "gs://output"
    /\ config.staging_bucket = "gs://staging"
    /\ gca.pipeline_root = "gs://output"

\* The root and the components of a pipeline spec.
Graphs(spec) == {spec.root} \cup {spec.components[i] : i \in DOMAIN spec.components}

FlagOptions(flag) == IF flag = "True" THEN "enableCache:true" ELSE "enableCache:false"

AllTasksCarry(spec, options) ==
    \A g \in Graphs(spec) :
        g.dag => \A i \in DOMAIN g.tasks : g.tasks[i].cachingOptions = options

\* Two specs of one shape whose tasks have the same caching options.
SameCaching(s1, s2) ==
    /\ DOMAIN s1.components = DOMAIN s2.components
    /\ \A k \in 0..Len(s1.components) :
          LET g1 == IF k = 0 THEN s1.root ELSE s1.components[k]
              g2 == IF k = 0 THEN s2.root ELSE s2.components[k]
          IN  /\ g1.dag = g2.dag
              /\ DOMAIN g1.tasks = DOMAIN g2.tasks
              /\ \A i \in DOMAIN g1.tasks :
                    g1.tasks[i].cachingOptions = g2.tasks[i].cachingOptions

\* The same, whatever the caching options.
SameShape(s1, s2) ==
    /\ DOMAIN s1.components = DOMAIN s2.components
    /\ \A k \in 0..Len(s1.components) :
          LET g1 == IF k = 0 THEN s1.root ELSE s1.components[k]
              g2 == IF k = 0 THEN s2.root ELSE s2.components[k]
          IN  /\ g1.dag = g2.dag
              /\ DOMAIN g1.tasks = DOMAIN g2.tasks

\* C15: with enable_caching true or false, after the constructor or clone()
\* every task of the root DAG and of every component DAG carries that flag,
\* whatever the template had; with enable_caching unset the tasks' caching
\* options are those of the template (of the original, for clone()).
C15_CachingFlagEverywhere ==
    /\ ConstructorReturned =>
          /\ SameShape(gca.pipeline_spec, args.template.spec)
          /\ IF args.enable_caching \in {"True", "False"}
             THEN AllTasksCarry(gca.pipeline_spec, FlagOptions(args.enable_caching))
             ELSE SameCaching(gca.pipeline_spec, args.template.spec)
    /\ CloneReturned =>
          /\ SameShape(cloned.gca.pipeline_spec, gca.pipeline_spec)
          /\ IF args.enable_caching \in {"True", "False"}
             THEN AllTasksCarry(cloned.gca.pipeline_spec, FlagOptions(args.enable_caching))
             ELSE SameCaching(cloned.gca.pipeline_spec, gca.pipeline_spec)

\* C15 witness: enable_caching=False on a template with two component DAGs:
\* the tasks of all three graphs, enabled or unset before, are disabled.
C15_Witness ==
    /\ ConstructorReturned
    /\ args.enable_caching = "False"
    /\ Len(args.template.spec.components) = 2
    /\ \A k \in 1..2 : args.template.spec.components[k].dag
    /\ args.template.spec.root.dag
    /\ Len(args.template.spec.root.tasks) = 2
    /\ args.template.spec.root.tasks[1].cachingOptions = "enableCache:true"
    /\ args.template.spec.root.tasks[2].cachingOptions = "absent"
    /\ AllTasksCarry(gca.pipeline_spec, "enableCache:false")

\* A pipeline spec with the caching options of its tasks blanked.
Erased(spec) ==
    LET Blank(g) == [dag |-> g.dag,
                     tasks |-> [i \in DOMAIN g.tasks |->
                                   [name |-> g.tasks[i].name, cachingOptions |-> "-"]]]
    IN  [root |-> Blank(spec.root),
         components |-> [k \in DOMAIN spec.components |-> Blank(spec.components[k])],
         deploymentConfig |-> spec.deploymentConfig,
         defaultPipelineRoot |-> spec.defaultPipelineRoot]

\* C16: the caching toggle applied to a spec it was already applied to, with
\* the same value, gives that spec again (a clone made with the value the
\* original was made with has the original's tasks), and no application
\* changes anything but the tasks' cachingOptions.
C16_CachingToggleIdempotent ==
    /\ ConstructorReturned => Erased(gca.pipeline_spec) = Erased(args.template.spec)
    /\ CloneReturned =>
          /\ Erased(cloned.gca.pipeline_spec) =
                [Erased(gca.pipeline_spec) EXCEPT !.deploymentConfig = FALSE]
          /\ (/\ args.enable_caching \in {"True", "False"}
              /\ AllTasksCarry(gca.pipeline_spec, FlagOptions(args.enable_caching))) =>
                 cloned.gca.pipeline_spec =
                     [gca.pipeline_spec EXCEPT !.deploymentConfig = FALSE]

\* C16 witness: the original was made with enable_caching=True from a
\* template with tasks of other settings in the root and in a component;
\* the clone made with enable_caching=True has the same tasks.
C16_Witness ==
    /\ CloneReturned
    /\ args.enable_caching = "True"
    /\ Len(gca.pipeline_spec.root.tasks) = 2
    /\ Len(gca.pipeline_spec.components) = 2
    /\ gca.pipeline_spec.components[2].dag
    /\ AllTasksCarry(gca.pipeline_spec, "enableCache:true")
    /\ cloned.gca.pipeline_spec.root = gca.pipeline_spec.root
    /\ cloned.gca.pipeline_spec.components = gca.pipeline_spec.components

-----------------------------------------------------------------------------
(* Local validation in the constructor. *)

ConstructorEnded == pc = "idle" /\ result.op = "init"

\* No request has been made by the running operation: no template load and
\* no request to the pipeline service or the metadata store.
NoNetworkCall ==
    /\ rpc.fetch = 0 /\ rpc.create = 0 /\ rpc.get = 0
    /\ rpc.cancel = 0 /\ rpc.delete = 0 /\ rpc.meta = 0

\* C21: a constructor call with a missing (empty) or invalid display name,
\* or with invalid labels, has ended with a ValueError, and no template was
\* fetched and no request made before it.
C21_BadNamesFailLocally ==
    (/\ ConstructorEnded
     /\ \/ args.display_name \in {"", "INVALID"}
        \/ args.labels = "INVALID") =>
        /\ result.status = "raised"
        /\ result.err \in {"ValueError:display_name", "ValueError:labels"}
        /\ NoNetworkCall
        /\ ~Constructed

-----------------------------------------------------------------------------
(* The local state is a projection of the service's responses. *)

\* C22: once the job is submitted, the state held in self._gca_resource is
\* the state of the most recent successful create or get response; a step
\* that changes the held state stores a response that carries the state the
\* service holds at that moment.
C22_StateIsLastResponse ==
    /\ [](Submitted => gca.state = resp.state)
    /\ [][gca'.state # gca.state =>
             /\ resp' = gca'
             /\ gca'.state = remote'.res.state
             /\ rpc'.create + rpc'.get > 0]_vars

\* C22 witness: cancel() has returned and the cancellation has taken effect
\* at the service, while the held state is still the PENDING of the create
\* response.
C22_Witness ==
    /\ pc = "idle"
    /\ result.op = "cancel"
    /\ result.status = "ok"
    /\ remote.res.state = "CANCELLED"
    /\ gca.state = "PENDING"
    /\ resp.state = "PENDING"

-----------------------------------------------------------------------------
(* Termination of the blocking wait. *)

\* C23: the blocking wait leaves its loop only at a step that finds the
\* remote job in a terminal state or whose read fails, so it has not
\* returned while the job is not terminal, however long it has polled; and
\* once the remote job is terminal the wait ends (with its outcome, unless
\* a read fails).
C23_WaitEndsOnlyAtTerminal ==
    /\ [][(InBlockLoop /\ ~InBlockLoop') =>
             \/ rpc'.failed = "get"
             \/ remote.res.state \in PIPELINE_COMPLETE_STATES]_vars
    /\ [](BlockReturned => remote.res.state \in PIPELINE_COMPLETE_STATES)
    /\ (/\ InBlockLoop
        /\ remote.res.state \in PIPELINE_COMPLETE_STATES
        /\ pc = "w_body" => now + SleepTime(loc) <= MaxClock)
          ~> (pc = "idle" /\ (rpc.failed = "get" \/ BlockReturned))

\* C23 witness: after 920 seconds and 185 successful reads of a job that is
\* still RUNNING the wait is still in its loop.
C23_Witness ==
    /\ pc = "w_body"
    /\ result.status = "running"
    /\ remote.res.state = "RUNNING"
    /\ rpc.failed = ""
    /\ rpc.get = 185
    /\ now = 920

-----------------------------------------------------------------------------
(* The error of a lineage-context lookup that found no context. *)

\* C24: when _get_context raises for want of a context, the error that
\* carries the job's error payload is raised only for a FAILED job; for a
\* job that ended SUCCEEDED, CANCELLED or PAUSED the error is the one saying
\* the context could not be found.
C24_ErrorMatchesOutcome ==
    (/\ pc = "idle"
     /\ result.op = "submit"
     /\ result.status = "raised"
     /\ result.err \in {"CannotAssociate:error", "CannotAssociate:context not found"}) =>
        /\ result.err = "CannotAssociate:error" => gca.state = "FAILED"
        /\ gca.state \in {"SUCCEEDED", "CANCELLED", "PAUSED"} =>
              result.err = "CannotAssociate:context not found"

-----------------------------------------------------------------------------
(* The experiment in submit(). *)

\* The association of the submitted job to the experiment has begun: its
\* lineage-context lookup is running or has made a read.
AssociationBegun == result.op = "submit" /\ (pc \in {"c_cond", "c_body", "c_exit"} \/ rpc.get > 0)

\* C25: in submit() an experiment given is validated, and one that fails
\* validation leaves submit() with no create request made; the association
\* begins only with a valid experiment after a create request that returned
\* a resource, never after a failed one; without an experiment there is
\* neither validation nor association.
C25_ExperimentAroundCreate ==
    (result.op = "submit" /\ result.status # "none") =>
        /\ args.experiment # "" => rpc.meta = 1
        /\ result.err = "ExperimentInvalid" <=>
              (args.experiment # "" /\ ~ExperimentValid(args.experiment))
        /\ result.err = "ExperimentInvalid" =>
              /\ rpc.create = 0
              /\ ~AssociationBegun
        /\ rpc.failed = "create" => ~AssociationBegun
        /\ AssociationBegun =>
              /\ args.experiment # ""
              /\ ExperimentValid(args.experiment)
              /\ rpc.create = 1
              /\ rpc.create_id = job_id
              /\ Submitted
        /\ args.experiment = "" =>
              /\ rpc.meta = 0
              /\ ~AssociationBegun
              /\ pc = "idle"

\* C25 witness: submit() with an experiment that fails validation has
\* raised with no create request made and no job at the service.
C25_Witness ==
    /\ pc = "idle"
    /\ result.op = "submit"
    /\ result.err = "ExperimentInvalid"
    /\ args.experiment = "exp-bad"
    /\ rpc.meta = 1
    /\ rpc.create = 0
    /\ ~remote.exists

-----------------------------------------------------------------------------
(* The snapshot the blocking wait decides on. *)

\* C26: when the loop of the blocking wait has ended, the snapshot held is
\* the response of the poll that ended it; the step that returns or raises
\* makes no read and leaves the snapshot alone, raises exactly for a state
\* of that response that is an error state, with that response's error
\* payload; and the reads of the wait number one per evaluation of the loop
\* condition (one before each sleep, and the one that ended the loop).
C26_DecidesOnLoopSnapshot ==
    /\ [](pc = "w_exit" =>
             /\ gca = resp
             /\ gca.state \in PIPELINE_COMPLETE_STATES
             /\ rpc.complete_polls = 1
             /\ rpc.get = rpc.sleeps + 1)
    /\ [][(pc = "w_exit" /\ pc' = "idle") =>
             /\ rpc'.get = rpc.get
             /\ gca' = gca
             /\ resp' = resp
             /\ result'.status = "raised" <=> resp.state \in PIPELINE_ERROR_STATES
             /\ result'.status = "raised" => result'.payload = resp.error
             /\ result'.status \in {"ok", "raised"}]_vars
    /\ [](BlockReturned => rpc.get = rpc.sleeps + 1)

\* C26 witness: wait() has raised with the payload {code 13, "internal"} of
\* its third and last read.
C26_Witness ==
    /\ BlockReturned
    /\ result.status = "raised"
    /\ result.payload = [code |-> 13, message |-> "internal"]
    /\ gca.state = "FAILED"
    /\ gca = resp
    /\ rpc.get = 3
    /\ rpc.sleeps = 2

=============================================================================
